---- MODULE Spec2Model ----
(***************************************************************************)
(* Verification model of the job scheduler (CronScheduler), the update     *)
(* route of its HTTP API, and the stream consumer (EventConsumer).         *)
(*                                                                         *)
(* Scheduler objects live in a heap: every createJob / updateJob builds a  *)
(* NEW definition + entry object, while startJob, stopJob and executeJob   *)
(* mutate the object they hold a reference to.  A firing that awaits its   *)
(* publish keeps the reference it read before the await.                   *)
(***************************************************************************)
EXTENDS Integers, Sequences, FiniteSets, TLC

VARIABLES now, nextId, jobs, heap, inflight, published, createdKind, last, calls

\* history: `failed` holds the ids whose latest firing had its publish
\* rejected with no operation of a caller on the id since that firing began;
\* `touched` holds the ids a caller operated on while a firing of the id was
\* awaiting its publish
VARIABLES failed, touched

\* the stream, its consumer group, and the EventConsumer instances
VARIABLES stream, groupExists, lastDelivered, pel, running, loops,
          result, ack, handled, disturbed

\* number of start() / stop() calls and process crashes so far
VARIABLE ccalls

schedVars == <<now, nextId, jobs, heap, inflight, published, createdKind, last, calls, failed, touched>>

consVars == <<stream, groupExists, lastDelivered, pel, running, loops,
              result, ack, handled, disturbed, ccalls>>

\* the validator registry, the requests posted to the WhatsApp API, the result
\* of the latest tool call, and the number of tool calls so far
VARIABLES validators, posted, toolLast, tcalls

toolVars == <<validators, posted, toolLast, tcalls>>

\* the latest call of parseDuration: its argument, its outcome, and what
\* formatDuration makes of the value it returned
VARIABLES durationString, durationResult, formatted

durVars == <<durationString, durationResult, formatted>>

\* the latest call of parseDateTime: its argument, its outcome, and what
\* formatDateTime makes of the timestamp it returned
VARIABLES dateTimeString, dateResult, dateText

dateVars == <<dateTimeString, dateResult, dateText>>

vars == <<schedVars, consVars, toolVars, durVars, dateVars>>

(* ------------------------------ bounds --------------------------------- *)
MaxTime == 1
MaxJobs == 1
MaxObjs == 2
MaxEvents == 2
MaxPartialFields == 1
MaxCalls == 3
MaxEntries == 2
MaxLoops == 2
BatchCount == 2
MaxConsumerCalls == 3
MaxToolCalls == 2
MaxDurationLen == 4

(* --------------------------- value domains ----------------------------- *)
\* `undefined` for an optional numeric field (scheduledTime?, executedAt?)
Absent == -1
\* a scheduledTime string of the request body that is not yyyyMMddHHmmss
BadFormat == -2

\* the ids randomUUID() hands out
Ids == 1..MaxJobs
\* an id string chosen by a caller, never one randomUUID() returns
ForeignId == MaxJobs + 1
AllIds == Ids \cup {ForeignId}
Refs == 1..MaxObjs
Null == 0

Recurring == "recurring"
OneTime == "one-time"
\* a falsy value of the `type` key in a request body ("" / null / 0 / false)
Falsy == ""

ValidSchedules == {"0 9 * * *", "*/5 * * * *"}
\* cron.validate of node-cron
CronValidate(s) == s \in ValidSchedules

\* a heap slot that holds no object
NoObj ==
  [alloc |-> FALSE, id |-> 0, type |-> Falsy, etype |-> Falsy, name |-> "",
   payload |-> "", schedule |-> "", scheduledTime |-> Absent,
   enabled |-> FALSE, executed |-> FALSE, executedAt |-> Absent,
   timeout |-> "null", liveTimers |-> 0, task |-> FALSE]

\* JavaScript truthiness of an optional number
TruthyNum(n) == n /= Absent /\ n /= 0

(* ------------------------------- heap ---------------------------------- *)
SeqRange(q) == {q[i] : i \in 1..Len(q)}

RemoveAt(q, i) == SubSeq(q, 1, i - 1) \o SubSeq(q, i + 1, Len(q))

\* an object is still referenced: by the job table, by a live timer or a
\* running cron task whose closure captured it, or by a firing in flight
Referenced(h, j, f, r) ==
  \/ \E id \in AllIds : j[id] = r
  \/ h[r].liveTimers > 0
  \/ h[r].task
  \/ \E i \in 1..Len(f) : f[i].ref = r

\* garbage collection of unreferenced objects
Collect(h, j, f) ==
  [r \in Refs |-> IF h[r].alloc /\ Referenced(h, j, f, r) THEN h[r] ELSE NoObj]

HasFree(h) == \E r \in Refs : ~h[r].alloc

Fresh(h) == CHOOSE r \in Refs : ~h[r].alloc /\ \A q \in Refs : ~h[q].alloc => r <= q

\* outcome of the caller's operation that led to the current state; armed is
\* the object a setTimeout was armed for by that operation, Null when none was
Outcome(op, id, ok, armed, err) ==
  [op |-> op, id |-> id, ok |-> ok, armed |-> armed, err |-> err]

\* the step that led to the current state was no call: a timer or task
\* callback, the continuation of a firing, or the clock
Internal == Outcome("", 0, TRUE, Null, "")

RECURSIVE SumUpTo(_, _)
SumUpTo(f, n) == IF n = 0 THEN 0 ELSE f[n] + SumUpTo(f, n - 1)

(* ------------------------ CronScheduler: create ------------------------ *)
\* cron.schedule(..., {scheduled: definition.enabled}); this.jobs.set(id, entry)
createRecurringJob(h, j, d) ==
  LET r == Fresh(h) IN
  [h |-> [h EXCEPT ![r] = [d EXCEPT !.alloc = TRUE, !.etype = Recurring,
                                    !.task = d.enabled, !.timeout = "null",
                                    !.liveTimers = 0]],
   j |-> [j EXCEPT ![d.id] = r]]

\* setTimeout when definition.enabled; this.jobs.set(id, entry)
createOneTimeJob(h, j, d) ==
  LET r == Fresh(h) IN
  [h |-> [h EXCEPT ![r] = [d EXCEPT !.alloc = TRUE, !.etype = OneTime,
                                    !.task = FALSE,
                                    !.timeout = IF d.enabled THEN "live" ELSE "null",
                                    !.liveTimers = IF d.enabled THEN 1 ELSE 0]],
   j |-> [j EXCEPT ![d.id] = r]]

\* the jobData a caller passes to createJob
JobData ==
  [type : {Recurring}, schedule : {"", "0 9 * * *", "0 25 * * *"},
   scheduledTime : {Absent}, enabled : BOOLEAN]
  \cup
  [type : {OneTime}, schedule : {""},
   scheduledTime : {Absent} \cup (0..(MaxTime + 1)), enabled : BOOLEAN]
  \cup
  [type : {"weekly"}, schedule : {""}, scheduledTime : {Absent}, enabled : {TRUE}]

createJobErrorNoPast(d) ==
  IF d.type = Recurring
    THEN IF d.schedule = "" THEN "schedule-required"
         ELSE IF ~CronValidate(d.schedule) THEN "schedule-invalid" ELSE ""
  ELSE IF d.type = OneTime
    THEN IF ~TruthyNum(d.scheduledTime) THEN "time-required" ELSE ""
  ELSE "type-invalid"

\* the error createJob throws for jobData, "" when it throws none
createJobError(d) ==
  IF d.type = Recurring
    THEN IF d.schedule = "" THEN "schedule-required"
         ELSE IF ~CronValidate(d.schedule) THEN "schedule-invalid" ELSE ""
  ELSE IF d.type = OneTime
    THEN IF ~TruthyNum(d.scheduledTime) THEN "time-required"
         ELSE IF d.scheduledTime <= now THEN "time-past" ELSE ""
  ELSE "type-invalid"

createJob(d) ==
  LET err == createJobError(d) IN
  IF err /= ""
    THEN /\ last' = Outcome("create", 0, FALSE, Null, err)
         /\ UNCHANGED <<now, nextId, jobs, heap, inflight, published, createdKind>>
    ELSE /\ nextId <= MaxJobs
         /\ HasFree(heap)
         /\ LET def == [NoObj EXCEPT !.id = nextId, !.type = d.type, !.name = "n1",
                                     !.payload = "p1", !.schedule = d.schedule,
                                     !.scheduledTime = d.scheduledTime,
                                     !.enabled = d.enabled]
                res == IF d.type = Recurring
                         THEN createRecurringJob(heap, jobs, def)
                         ELSE createOneTimeJob(heap, jobs, def)
            IN /\ heap' = res.h
               /\ jobs' = res.j
               /\ createdKind' = [createdKind EXCEPT ![nextId] = d.type]
               /\ last' = Outcome("create", nextId, TRUE,
                                  IF d.type = OneTime /\ d.enabled
                                    THEN res.j[nextId] ELSE Null, "")
         /\ nextId' = nextId + 1
         /\ UNCHANGED <<now, inflight, published>>

CreateJob == \E d \in JobData : createJob(d)

(* ------------------------ CronScheduler: firing ------------------------ *)
\* number of events appended to the stream so far
Published == SumUpTo(published, ForeignId)

executeJobStaleName(h, jobId) ==
  LET r == jobs[jobId] IN
  IF r = Null
    THEN /\ heap' = Collect(h, jobs, inflight)
         /\ last' = Internal
         /\ UNCHANGED inflight
    ELSE LET definition == h[r]
             event == [jobId |-> definition.id, jobName |-> "n1",
                       scheduledTime |-> IF definition.type = OneTime
                                           THEN definition.scheduledTime ELSE now,
                       payload |-> definition.payload]
         IN /\ inflight' = Append(inflight, [ref |-> r, event |-> event])
            /\ heap' = h
            /\ last' = Internal

\* executeJob up to its await: look the entry up by id, build the event
executeJob(h, jobId) ==
  LET r == jobs[jobId] IN
  IF r = Null
    THEN /\ heap' = Collect(h, jobs, inflight)
         /\ last' = Internal
         /\ UNCHANGED inflight
    ELSE LET definition == h[r]
             event == [jobId |-> definition.id, jobName |-> definition.name,
                       scheduledTime |-> IF definition.type = OneTime
                                           THEN definition.scheduledTime ELSE now,
                       payload |-> definition.payload]
         IN /\ inflight' = Append(inflight, [ref |-> r, event |-> event])
            /\ heap' = h
            /\ last' = Internal

\* the instant a setTimeout(delay) armed for this object is due
Due(o) == IF o.scheduledTime = Absent THEN 0 ELSE o.scheduledTime

\* a setTimeout callback runs: the handle is consumed, executeJob(definition.id)
\* `referenced` tells whether the handle is the one entry.timeout holds
FireTimer(r, referenced) ==
  /\ heap[r].alloc /\ heap[r].liveTimers > 0
  /\ now >= Due(heap[r])
  /\ Published + Len(inflight) < MaxEvents
  /\ IF referenced THEN heap[r].timeout = "live"
     ELSE heap[r].liveTimers > (IF heap[r].timeout = "live" THEN 1 ELSE 0)
  /\ LET h == [heap EXCEPT ![r].liveTimers = @ - 1,
                           ![r].timeout = IF referenced THEN "dead" ELSE @]
     IN executeJob(h, heap[r].id)
  /\ UNCHANGED <<now, nextId, jobs, published, createdKind>>

\* a tick of a running cron task: executeJob(definition.id)
CronTick(r) ==
  /\ heap[r].alloc /\ heap[r].task
  /\ Published + Len(inflight) < MaxEvents
  /\ executeJob(heap, heap[r].id)
  /\ UNCHANGED <<now, nextId, jobs, published, createdKind>>

PublishOkMarksAll(i) ==
  /\ i \in 1..Len(inflight)
  /\ LET f == inflight[i]
         h == [heap EXCEPT ![f.ref].executed = TRUE,
                           ![f.ref].executedAt = now,
                           ![f.ref].enabled = FALSE]
     IN /\ published' = [published EXCEPT ![f.event.jobId] = @ + 1]
        /\ inflight' = RemoveAt(inflight, i)
        /\ heap' = Collect(h, jobs, inflight')
        /\ last' = Internal
        /\ failed' = failed \ {f.event.jobId}
        /\ touched' = touched \cap {inflight'[k].event.jobId : k \in 1..Len(inflight')}
  /\ UNCHANGED <<now, nextId, jobs, createdKind>>

\* executeJob after its await, publish resolved
PublishOk(i) ==
  /\ i \in 1..Len(inflight)
  /\ LET f == inflight[i]
         definition == heap[f.ref]
         h == IF definition.type = OneTime
                THEN [heap EXCEPT ![f.ref].executed = TRUE,
                                  ![f.ref].executedAt = now,
                                  ![f.ref].enabled = FALSE,
                                  ![f.ref].timeout =
                                      IF definition.etype = OneTime THEN "null" ELSE @]
                ELSE heap
     IN /\ published' = [published EXCEPT ![f.event.jobId] = @ + 1]
        /\ inflight' = RemoveAt(inflight, i)
        /\ heap' = Collect(h, jobs, inflight')
        /\ last' = Internal
        /\ failed' = failed \ {f.event.jobId}
        /\ touched' = touched \cap {inflight'[k].event.jobId : k \in 1..Len(inflight')}
  /\ UNCHANGED <<now, nextId, jobs, createdKind>>

\* executeJob after its await, publish rejected: logged and swallowed
PublishFail(i) ==
  /\ i \in 1..Len(inflight)
  /\ inflight' = RemoveAt(inflight, i)
  /\ heap' = Collect(heap, jobs, inflight')
  /\ last' = Internal
  /\ failed' = IF inflight[i].event.jobId \in touched
                 THEN failed ELSE failed \cup {inflight[i].event.jobId}
  /\ touched' = touched \cap {inflight'[k].event.jobId : k \in 1..Len(inflight')}
  /\ UNCHANGED <<now, nextId, jobs, published, createdKind>>

\* the wall clock advances
Tick ==
  /\ now < MaxTime
  /\ now' = now + 1
  /\ last' = Internal
  /\ UNCHANGED <<nextId, jobs, heap, inflight, published, createdKind>>

(* ------------------- CronScheduler: start / stop / delete -------------- *)
\* task.stop() / clearTimeout(jobEntry.timeout) on the entry object o;
\* `forget` tells whether the entry also sets jobEntry.timeout = null
StopTask(o, forget) ==
  IF o.etype = Recurring
    THEN [o EXCEPT !.task = FALSE]
  ELSE IF o.etype = OneTime /\ o.timeout /= "null"
    THEN [o EXCEPT !.liveTimers = IF o.timeout = "live" THEN @ - 1 ELSE @,
                   !.timeout = IF forget THEN "null" ELSE "dead"]
  ELSE o

\* the error startJob throws, "" when it throws none
startJobError(jobId) ==
  IF jobs[jobId] = Null THEN "notfound"
  ELSE LET o == heap[jobs[jobId]] IN
       IF o.type = OneTime /\ o.executed THEN "executed"
       ELSE IF o.etype = OneTime /\ o.scheduledTime /= Absent /\ o.scheduledTime <= now
         THEN "elapsed"
       ELSE ""

startJob(jobId) ==
  LET err == startJobError(jobId) IN
  /\ IF err /= ""
       THEN /\ last' = Outcome("start", jobId, FALSE, Null, err)
            /\ UNCHANGED heap
       ELSE LET r == jobs[jobId]
                o == heap[r]
                started == IF o.etype = Recurring
                             THEN [o EXCEPT !.task = TRUE]
                           ELSE IF o.etype = OneTime
                             THEN [o EXCEPT !.liveTimers = @ + 1, !.timeout = "live"]
                           ELSE o
            IN /\ heap' = [heap EXCEPT ![r] = [started EXCEPT !.enabled = TRUE]]
               /\ last' = Outcome("start", jobId, TRUE,
                                  IF o.etype = OneTime THEN r ELSE Null, "")
  /\ UNCHANGED <<now, nextId, jobs, inflight, published, createdKind>>

StartJob == \E jobId \in AllIds : startJob(jobId)

stopJob(jobId) ==
  /\ IF jobs[jobId] = Null
       THEN /\ last' = Outcome("stop", jobId, FALSE, Null, "notfound")
            /\ UNCHANGED heap
       ELSE LET r == jobs[jobId] IN
            /\ heap' = [heap EXCEPT ![r] = [StopTask(heap[r], TRUE)
                                              EXCEPT !.enabled = FALSE]]
            /\ last' = Outcome("stop", jobId, TRUE, Null, "")
  /\ UNCHANGED <<now, nextId, jobs, inflight, published, createdKind>>

StopJob == \E jobId \in AllIds : stopJob(jobId)

deleteJobKeepsTimer(jobId) ==
  /\ IF jobs[jobId] = Null
       THEN /\ last' = Outcome("delete", jobId, FALSE, Null, "notfound")
            /\ UNCHANGED <<jobs, heap>>
       ELSE /\ jobs' = [jobs EXCEPT ![jobId] = Null]
            /\ heap' = Collect(heap, jobs', inflight)
            /\ last' = Outcome("delete", jobId, TRUE, Null, "")
  /\ UNCHANGED <<now, nextId, inflight, published, createdKind>>

deleteJob(jobId) ==
  /\ IF jobs[jobId] = Null
       THEN /\ last' = Outcome("delete", jobId, FALSE, Null, "notfound")
            /\ UNCHANGED <<jobs, heap>>
       ELSE LET r == jobs[jobId] IN
            /\ jobs' = [jobs EXCEPT ![jobId] = Null]
            /\ heap' = Collect([heap EXCEPT ![r] = StopTask(heap[r], FALSE)],
                               jobs', inflight)
            /\ last' = Outcome("delete", jobId, TRUE, Null, "")
  /\ UNCHANGED <<now, nextId, inflight, published, createdKind>>

DeleteJob == \E jobId \in AllIds : deleteJob(jobId)

\* stopAll: every task stopped, every timeout cleared, no field written
stopAll ==
  /\ heap' = Collect([r \in Refs |->
                        IF \E id \in AllIds : jobs[id] = r
                          THEN StopTask(heap[r], FALSE) ELSE heap[r]],
                     jobs, inflight)
  /\ last' = Outcome("stopAll", 0, TRUE, Null, "")
  /\ UNCHANGED <<now, nextId, jobs, inflight, published, createdKind>>

(* ------------------- PATCH /jobs/:jobId and updateJob ------------------ *)
Fields == {"name", "payload", "schedule", "scheduledTime", "enabled", "type",
           "id", "executed"}

\* a request body without keys
EmptyBody ==
  [set |-> {}, name |-> "", payload |-> "", schedule |-> "",
   scheduledTime |-> Absent, enabled |-> FALSE, type |-> Falsy, id |-> 0,
   executed |-> FALSE]

\* the request bodies that carry exactly one key
OneKeyBodies ==
  {[EmptyBody EXCEPT !.set = {"name"}, !.name = "n2"]}
  \cup {[EmptyBody EXCEPT !.set = {"schedule"}, !.schedule = v] :
          v \in {"*/5 * * * *", "0 25 * * *"}}
  \cup {[EmptyBody EXCEPT !.set = {"scheduledTime"}, !.scheduledTime = v] :
          v \in {BadFormat} \cup (1..(MaxTime + 1))}
  \cup {[EmptyBody EXCEPT !.set = {"enabled"}, !.enabled = v] : v \in BOOLEAN}
  \cup {[EmptyBody EXCEPT !.set = {"type"}, !.type = v] :
          v \in {Recurring, OneTime, Falsy}}
  \cup {[EmptyBody EXCEPT !.set = {"id"}, !.id = v] : v \in AllIds}
  \cup {[EmptyBody EXCEPT !.set = {"executed"}, !.executed = TRUE]}

\* {...p, ...q} of two bodies
Spread(p, q) ==
  [set |-> p.set \cup q.set,
   name |-> IF "name" \in q.set THEN q.name ELSE p.name,
   payload |-> IF "payload" \in q.set THEN q.payload ELSE p.payload,
   schedule |-> IF "schedule" \in q.set THEN q.schedule ELSE p.schedule,
   scheduledTime |-> IF "scheduledTime" \in q.set THEN q.scheduledTime
                     ELSE p.scheduledTime,
   enabled |-> IF "enabled" \in q.set THEN q.enabled ELSE p.enabled,
   type |-> IF "type" \in q.set THEN q.type ELSE p.type,
   id |-> IF "id" \in q.set THEN q.id ELSE p.id,
   executed |-> IF "executed" \in q.set THEN q.executed ELSE p.executed]

RECURSIVE BodiesUpTo(_)
\* the request bodies with at most k keys
BodiesUpTo(k) ==
  IF k = 0 THEN {EmptyBody}
  ELSE LET prev == BodiesUpTo(k - 1) IN
       prev \cup {Spread(pq[1], pq[2]) :
                   pq \in {x \in prev \X OneKeyBodies : x[1].set \cap x[2].set = {}}}

Bodies == BodiesUpTo(MaxPartialFields)

\* {...definition, ...updates}: the merged definition object
Merge(definition, u) ==
  [definition EXCEPT
     !.name = IF "name" \in u.set THEN u.name ELSE @,
     !.payload = IF "payload" \in u.set THEN u.payload ELSE @,
     !.schedule = IF "schedule" \in u.set THEN u.schedule ELSE @,
     !.scheduledTime = IF "scheduledTime" \in u.set THEN u.scheduledTime ELSE @,
     !.enabled = IF "enabled" \in u.set THEN u.enabled ELSE @,
     !.type = IF "type" \in u.set THEN u.type ELSE @,
     !.id = IF "id" \in u.set THEN u.id ELSE @,
     !.executed = IF "executed" \in u.set THEN u.executed ELSE @]

\* the 400 response of the route before it calls the scheduler, "" when none
patchError(u) ==
  IF "type" \in u.set /\ u.type /= Falsy THEN "type"
  ELSE IF "scheduledTime" \in u.set /\ u.scheduledTime = BadFormat THEN "format"
  ELSE ""

\* the error updateJob throws before it touches the timer, "" when none
updateJobGuardError(jobId) ==
  IF jobs[jobId] = Null THEN "notfound"
  ELSE IF heap[jobs[jobId]].type = OneTime /\ heap[jobs[jobId]].executed
    THEN "executed"
  ELSE ""

\* the error of the "Validate updates" block, "" when none
updateJobValidateError(definition, u) ==
  IF definition.type = Recurring
    THEN IF "schedule" \in u.set /\ u.schedule /= "" /\ ~CronValidate(u.schedule)
           THEN "schedule-invalid" ELSE ""
  ELSE IF definition.type = OneTime
    THEN IF "scheduledTime" \in u.set /\ TruthyNum(u.scheduledTime)
            /\ u.scheduledTime <= now
           THEN "time-past" ELSE ""
  ELSE ""

updateJob(jobId, u) ==
  LET gerr == updateJobGuardError(jobId) IN
  IF gerr /= ""
    THEN /\ last' = Outcome("update", jobId, FALSE, Null, gerr)
         /\ UNCHANGED <<jobs, heap>>
    ELSE LET r == jobs[jobId]
             definition == heap[r]
             updatedDefinition == Merge(definition, u)
             verr == updateJobValidateError(definition, u)
         IN \* Stop/clear existing task
            \E stopped \in {[heap EXCEPT ![r] = StopTask(heap[r], FALSE)]} :
            IF verr /= ""
              THEN /\ heap' = Collect(stopped, jobs, inflight)
                   /\ UNCHANGED jobs
                   /\ last' = Outcome("update", jobId, FALSE, Null, verr)
              ELSE \* Delete old job entry, recreate job with updated definition
                   \E deleted \in {[jobs EXCEPT ![jobId] = Null]} :
                   \E h \in {Collect(stopped, deleted, inflight)} :
                     /\ HasFree(h)
                     /\ \E res \in {IF updatedDefinition.type = Recurring
                                      THEN createRecurringJob(h, deleted, updatedDefinition)
                                      ELSE createOneTimeJob(h, deleted, updatedDefinition)} :
                          /\ jobs' = res.j
                          /\ heap' = Collect(res.h, res.j, inflight)
                          /\ last' = Outcome("update", jobId, TRUE,
                                             IF updatedDefinition.type /= Recurring
                                                  /\ updatedDefinition.enabled
                                               THEN res.j[updatedDefinition.id]
                                               ELSE Null, "")

\* router.patch('/jobs/:jobId')
patchJob(jobId, u) ==
  \* an id of the body is an id handed out so far or the caller's own string
  /\ ("id" \in u.set => u.id < nextId \/ u.id = ForeignId)
  \* the bodies sent carry the time key of the job's kind only
  /\ jobs[jobId] /= Null =>
       /\ ("schedule" \in u.set => heap[jobs[jobId]].etype = Recurring)
       /\ ("scheduledTime" \in u.set => heap[jobs[jobId]].etype = OneTime)
  /\ IF patchError(u) /= ""
       THEN /\ last' = Outcome("update", jobId, FALSE, Null, patchError(u))
            /\ UNCHANGED <<jobs, heap>>
       ELSE updateJob(jobId, u)
  /\ UNCHANGED <<now, nextId, inflight, published, createdKind>>

PatchJob == \E jobId \in AllIds : \E u \in Bodies : patchJob(jobId, u)

(* ------------------------- EventConsumer / store ----------------------- *)
\* the EventConsumer instances of one group, each with its own consumerName
Instances == {"ai-worker-1", "ai-worker-2"}
NoOwner == ""
Entries == 1..MaxEntries
Loops == 1..MaxLoops

\* event types a stream entry can carry; only the first has a handler
CronjobTrigger == "cronjob:trigger"
WhatsappMessage == "whatsapp:message"

\* handlers registered with on() before start()
handlers == [inst \in Instances |-> {CronjobTrigger}]

\* entries a producer can append: publish() always writes JSON in `data`;
\* json = FALSE is an entry of another producer whose `data` does not parse
Producible ==
  { [type |-> CronjobTrigger, json |-> TRUE],
    [type |-> WhatsappMessage, json |-> TRUE],
    [type |-> CronjobTrigger, json |-> FALSE] }

\* messages is the array the latest read returned and batch what the for-loop
\* has still to process of it; stopSeen is history: whether stop() was called on the instance since this
\* call of start() began, and if so whether the call was still creating the
\* group ("starting") or already in its loop ("running")
NoLoop ==
  [inst |-> NoOwner, pc |-> "idle", messages |-> <<>>, batch |-> <<>>, stopSeen |-> "no"]

LoopsOf(inst) == {l \in Loops : loops[l].inst = inst}
FreeLoop == CHOOSE l \in Loops : loops[l].pc = "idle" /\ \A k \in Loops : loops[k].pc = "idle" => l <= k
Min(a, b) == IF a < b THEN a ELSE b

\* publish(): XADD appends the flattened event to the stream
publish(entry) ==
  /\ Len(stream) < MaxEntries
  /\ stream' = Append(stream, entry)
  /\ UNCHANGED <<groupExists, lastDelivered, pel, running, loops, result, ack, handled, disturbed>>

Publish == \E entry \in Producible : publish(entry)

\* start(config): a call enters start() and awaits xGroupCreate
start(inst) ==
  /\ \E l \in Loops : loops[l].pc = "idle"
  /\ loops' = [loops EXCEPT ![FreeLoop] = [NoLoop EXCEPT !.inst = inst, !.pc = "group"]]
  /\ UNCHANGED <<stream, groupExists, lastDelivered, pel, running, result, ack, handled, disturbed>>

Start == \E inst \in Instances : start(inst)

\* xGroupCreate resolved (created, or BUSYGROUP swallowed): running := true
GroupReady(l) ==
  /\ loops[l].pc = "group"
  /\ groupExists' = TRUE
  /\ running' = [running EXCEPT ![loops[l].inst] = TRUE]
  /\ loops' = [loops EXCEPT ![l].pc = "top"]
  /\ UNCHANGED <<stream, lastDelivered, pel, result, ack, handled, disturbed>>

\* xGroupCreate failed with another error: start() rethrows, no loop runs
GroupError(l) ==
  /\ loops[l].pc = "group"
  /\ loops' = [loops EXCEPT ![l] = NoLoop]
  /\ disturbed' = TRUE
  /\ UNCHANGED <<stream, groupExists, lastDelivered, pel, running, result, ack, handled>>

\* while (this.running): issue the next xReadGroup, or leave the loop
Top(l) ==
  /\ loops[l].pc = "top"
  /\ loops' = [loops EXCEPT ![l] = IF running[loops[l].inst]
                                        THEN [@ EXCEPT !.pc = "read", !.messages = <<>>]
                                        ELSE NoLoop]
  /\ UNCHANGED <<stream, groupExists, lastDelivered, pel, running, result, ack, handled, disturbed>>

\* XREADGROUP with id '>': the entries never delivered to the group, at
\* most COUNT of them; they enter the pending list under the consumer name
Undelivered == (lastDelivered + 1)..Len(stream)
Claimable == (lastDelivered + 1)..Min(lastDelivered + BatchCount, Len(stream))
xReadGroup(from, upto) == [i \in 1..(upto - from + 1) |-> from + i - 1]

NextCursorStale(cursor, batch) == cursor

\* the group's last-delivered id moves past what the read handed out
NextCursor(cursor, batch) == cursor + Len(batch)

ReadOk(l) ==
  /\ loops[l].pc = "read"
  /\ groupExists
  /\ Undelivered /= {}
  /\ \E batch \in {xReadGroup(lastDelivered + 1, Min(lastDelivered + BatchCount, Len(stream)))} :
       /\ loops' = [loops EXCEPT ![l].pc = "proc", ![l].messages = batch,
                                  ![l].batch = batch]
       /\ pel' = [e \in Entries |-> IF e \in Claimable THEN loops[l].inst ELSE pel[e]]
       /\ lastDelivered' = NextCursor(lastDelivered, batch)
  /\ UNCHANGED <<stream, groupExists, running, result, ack, handled, disturbed>>

\* the blocking read timed out with nothing new: `continue`
ReadEmpty(l) ==
  /\ loops[l].pc = "read"
  /\ groupExists
  /\ Undelivered = {}
  /\ loops' = [loops EXCEPT ![l].pc = "top"]
  /\ UNCHANGED <<stream, groupExists, lastDelivered, pel, running, result, ack, handled, disturbed>>

\* the read rejected: logged, then the 1000 ms backoff
ReadError(l) ==
  /\ loops[l].pc = "read"
  /\ loops' = [loops EXCEPT ![l].pc = "backoff"]
  /\ UNCHANGED <<stream, groupExists, lastDelivered, pel, running, result, ack, handled, disturbed>>

Backoff(l) ==
  /\ loops[l].pc = "backoff"
  /\ loops' = [loops EXCEPT ![l].pc = "top"]
  /\ UNCHANGED <<stream, groupExists, lastDelivered, pel, running, result, ack, handled, disturbed>>

\* a for-loop that looks at the running flag after every message
AdvanceUnlessStopped(lp) ==
  IF running[lp.inst]
    THEN [lp EXCEPT !.batch = Tail(lp.batch),
                    !.pc = IF Tail(lp.batch) = <<>> THEN "top" ELSE "proc"]
    ELSE [lp EXCEPT !.batch = <<>>, !.pc = "top"]

\* processMessage returned for the head of the batch: next message of the
\* for-loop, or back to the while condition
Advance(lp) ==
  [lp EXCEPT !.batch = Tail(lp.batch),
             !.pc = IF Tail(lp.batch) = <<>> THEN "top" ELSE "proc"]

Current(l) == Head(loops[l].batch)

\* processMessage up to its first await: parse, look the handler up
Dispatch(l) ==
  /\ loops[l].pc = "proc"
  /\ \E e \in {Current(l)} :
       IF ~stream[e].json
       THEN \* JSON.parse throws: caught, no xAck
            /\ result' = [result EXCEPT ![e] = "unparseable"]
            /\ loops' = [loops EXCEPT ![l] = Advance(@)]
            /\ disturbed' = TRUE
            /\ UNCHANGED handled
       ELSE IF stream[e].type \in handlers[loops[l].inst]
       THEN /\ result' = [result EXCEPT ![e] = "handling"]
            /\ handled' = [handled EXCEPT ![e] = @ + 1]
            /\ loops' = [loops EXCEPT ![l].pc = "handler"]
            /\ UNCHANGED disturbed
       ELSE /\ result' = [result EXCEPT ![e] = "nohandler"]
            /\ loops' = [loops EXCEPT ![l].pc = "ack"]
            /\ UNCHANGED <<handled, disturbed>>
  /\ UNCHANGED <<stream, groupExists, lastDelivered, pel, running, ack>>

HandlerReturn(l) ==
  /\ loops[l].pc = "handler"
  /\ result' = [result EXCEPT ![Current(l)] = "returned"]
  /\ loops' = [loops EXCEPT ![l].pc = "ack"]
  /\ UNCHANGED <<stream, groupExists, lastDelivered, pel, running, ack, handled, disturbed>>

HandlerThrowAcks(l) ==
  /\ loops[l].pc = "handler"
  /\ result' = [result EXCEPT ![Current(l)] = "threw"]
  /\ loops' = [loops EXCEPT ![l].pc = "ack"]
  /\ disturbed' = TRUE
  /\ UNCHANGED <<stream, groupExists, lastDelivered, pel, running, ack, handled>>

HandlerThrow(l) ==
  /\ loops[l].pc = "handler"
  /\ result' = [result EXCEPT ![Current(l)] = "threw"]
  /\ loops' = [loops EXCEPT ![l] = Advance(@)]
  /\ disturbed' = TRUE
  /\ UNCHANGED <<stream, groupExists, lastDelivered, pel, running, ack, handled>>

\* xAck accepted: the entry leaves the pending list
xAck(p, e) == [p EXCEPT ![e] = NoOwner]

AckOk(l) ==
  /\ loops[l].pc = "ack"
  /\ pel' = xAck(pel, Current(l))
  /\ ack' = [ack EXCEPT ![Current(l)] = "acked"]
  /\ loops' = [loops EXCEPT ![l] = Advance(@)]
  /\ UNCHANGED <<stream, groupExists, lastDelivered, running, result, handled, disturbed>>

\* xAck rejected and the error left to the catch of the while loop
AckErrorEndsBatch(l) ==
  /\ loops[l].pc = "ack"
  /\ ack' = [ack EXCEPT ![Current(l)] = "failed"]
  /\ loops' = [loops EXCEPT ![l].batch = <<>>, ![l].pc = "backoff"]
  /\ disturbed' = TRUE
  /\ UNCHANGED <<stream, groupExists, lastDelivered, pel, running, result, handled>>

\* xAck rejected: caught by the same catch, the entry stays pending
AckError(l) ==
  /\ loops[l].pc = "ack"
  /\ ack' = [ack EXCEPT ![Current(l)] = "failed"]
  /\ loops' = [loops EXCEPT ![l] = Advance(@)]
  /\ disturbed' = TRUE
  /\ UNCHANGED <<stream, groupExists, lastDelivered, pel, running, result, handled>>

stop(inst) ==
  /\ running' = [running EXCEPT ![inst] = FALSE]
  /\ loops' = [l \in Loops |->
                 IF loops[l].inst = inst /\ loops[l].stopSeen = "no"
                   THEN [loops[l] EXCEPT !.stopSeen =
                           IF loops[l].pc = "group" THEN "starting" ELSE "running"]
                   ELSE loops[l]]
  /\ disturbed' = TRUE
  /\ UNCHANGED <<stream, groupExists, lastDelivered, pel, result, ack, handled>>

Stop == \E inst \in Instances : stop(inst)

\* the process hosting an instance dies: its calls of start() vanish with
\* whatever they had claimed; a restarted process has a fresh instance
Crash(inst) ==
  /\ LoopsOf(inst) /= {}
  /\ loops' = [l \in Loops |-> IF loops[l].inst = inst THEN NoLoop ELSE loops[l]]
  /\ running' = [running EXCEPT ![inst] = FALSE]
  /\ result' = [e \in Entries |-> IF \E l \in LoopsOf(inst) : e \in SeqRange(loops[l].batch)
                                    THEN "crashed" ELSE result[e]]
  /\ disturbed' = TRUE
  /\ UNCHANGED <<stream, groupExists, lastDelivered, pel, ack, handled>>

\* one continuation of the call of start() in slot l
LoopStep(l) ==
  \/ GroupReady(l)
  \/ GroupError(l)
  \/ Top(l)
  \/ ReadOk(l)
  \/ ReadEmpty(l)
  \/ ReadError(l)
  \/ Backoff(l)
  \/ Dispatch(l)
  \/ HandlerReturn(l)
  \/ HandlerThrow(l)
  \/ AckOk(l)
  \/ AckError(l)

(* ------------------ validators and the WhatsApp tool ------------------- *)
\* strings are sequences of one-character strings
Own == <<"6","2","8","1","3","2","1","1","2","7","7","1","7">>
OwnLocal == <<"0","8","1","3","2","1","1","2","7","7","1","7">>
OwnChat == <<"+","6","2"," ","8","1","3","-","2","1","1","2","-","7","7","1","7","@","c",".","u","s">>
Friend == <<"6","2","8","1","1","1","2","2","2","3","3","3">>
Other == <<"6","2","8","1","2","3","4","5","6","7","8","9">>
OtherFriend == <<"6","2","8","1","1","1","1","1","1","1","1","1">>
Stranger == <<"6","2","8","0","0","0","0","0","0","0","0","0">>
Constructor == <<"c","o","n","s","t","r","u","c","t","o","r">>
OwnPlusPlus == <<"+","+","6","2","8","1","3","2","1","1","2","7","7","1","7">>
EmptyString == <<>>

\* the userId of a call whose context is undefined or has no userId
NoUserId == <<"undefined">>

\* phoneNumber arguments of a tool call
PhoneNumbers == {Own, OwnLocal, OwnChat, Friend, Other, OtherFriend, Stranger,
                 Constructor, OwnPlusPlus}

\* context?.userId of a tool call
UserIds == {NoUserId, EmptyString, Own, OwnChat, OwnLocal, Other, Constructor,
            OwnPlusPlus}

\* the object the hardcoded whitelists are looked up in
hardcodedWhitelists ==
  [u \in {Own, Other} |->
     IF u = Own THEN {Own, Friend,
                      <<"6","2","8","9","9","9","8","8","8","7","7","7">>,
                      <<"6","2","8","5","5","5","6","6","6","7","7","7">>}
                ELSE {OtherFriend,
                      <<"6","2","8","2","2","2","2","2","2","2","2","2">>}]

\* keys every object inherits; their value is a function, which is truthy
\* and cannot be spread
InheritedKeys == {Constructor}

\* s with everything from its first "@" on removed
RECURSIVE StripSuffix(_)
StripSuffix(s) ==
  IF s = <<>> \/ Head(s) = "@" THEN <<>> ELSE <<Head(s)>> \o StripSuffix(Tail(s))

\* s without spaces, dashes and parentheses
Separators == {" ", "-", "(", ")"}

RECURSIVE StripSeparators(_)
StripSeparators(s) ==
  IF s = <<>> THEN <<>>
  ELSE IF Head(s) \in Separators THEN StripSeparators(Tail(s))
  ELSE <<Head(s)>> \o StripSeparators(Tail(s))

StripPlus(s) == IF s /= <<>> /\ Head(s) = "+" THEN Tail(s) ELSE s

LocalToInternational(s) ==
  IF s /= <<>> /\ Head(s) = "0" THEN <<"6", "2">> \o Tail(s) ELSE s

\* WhatsAppValidator.normalize
normalize(phoneNumber) ==
  LocalToInternational(StripPlus(StripSeparators(StripSuffix(phoneNumber))))

\* WhatsAppValidator.getWhitelist throws for these user ids
getWhitelistThrows(userId) == normalize(userId) \in InheritedKeys

\* WhatsAppValidator.getWhitelist, as the set of its elements
getWhitelist(userId) ==
  {normalize(userId)} \cup
    (IF normalize(userId) \in DOMAIN hardcodedWhitelists
       THEN hardcodedWhitelists[normalize(userId)] ELSE {})

\* BaseToolValidator.isAllowed
isAllowed(resource, userId) == normalize(resource) \in getWhitelist(userId)

\* BaseToolValidator.validate: the valid field of its result
validate(resource, userId) ==
  /\ ~getWhitelistThrows(userId)
  /\ isAllowed(normalize(resource), userId)

ToolName == "whatsapp_send_message"

\* undefined and the empty string are falsy
FalsyUserId(userId) == userId \in {NoUserId, EmptyString}

\* ValidatorRegistry.validate
registryValidate(toolName, resource, userId) ==
  IF toolName \notin validators THEN TRUE ELSE validate(resource, userId)

\* initializeValidators
InitializeValidators ==
  /\ validators' = validators \cup {ToolName}
  /\ UNCHANGED <<posted, toolLast, tcalls>>

ToolResult(kind, phoneNumber, dryRun, userId) ==
  [kind |-> kind, phoneNumber |-> phoneNumber, dryRun |-> dryRun, userId |-> userId]

\* the step of handleWhatsAppTool that a whatsapp_send_message call ends at,
\* `ok` being whether the POST to the WhatsApp API succeeds
sendMessageKind(phoneNumber, dryRun, userId, ok) ==
  IF ~FalsyUserId(userId)
       /\ ~registryValidate(ToolName, phoneNumber, userId) THEN "invalid"
  ELSE IF ~FalsyUserId(userId) /\ dryRun THEN "validated"
  ELSE IF ok THEN "sent"
  ELSE "sendError"

\* handleWhatsAppTool('whatsapp_send_message', {phoneNumber, message, dryRun}, {userId})
handleWhatsAppTool(phoneNumber, dryRun, userId, ok) ==
  /\ tcalls < MaxToolCalls
  /\ tcalls' = tcalls + 1
  /\ toolLast' = ToolResult(sendMessageKind(phoneNumber, dryRun, userId, ok),
                            phoneNumber, dryRun, userId)
  /\ posted' = IF toolLast'.kind \in {"sent", "sendError"}
                 THEN Append(posted, [phoneNumber |-> phoneNumber, dryRun |-> dryRun,
                                      delivered |-> ok])
                 ELSE posted
  /\ UNCHANGED validators

HandleWhatsAppTool ==
  \E phoneNumber \in PhoneNumbers : \E dryRun \in BOOLEAN :
    \E userId \in UserIds : \E ok \in BOOLEAN :
      handleWhatsAppTool(phoneNumber, dryRun, userId, ok)

(* --------------------------- duration strings -------------------------- *)
Digits == {"0", "1", "2", "3", "4", "5", "6", "7", "8", "9"}

DigitChars == <<"0", "1", "2", "3", "4", "5", "6", "7", "8", "9">>

DigitValue(c) == (CHOOSE d \in 1..10 : DigitChars[d] = c) - 1

\* parseInt(digits, 10) of a string of decimal digits
RECURSIVE parseInt(_)
parseInt(digits) ==
  IF digits = <<>> THEN 0
  ELSE parseInt(SubSeq(digits, 1, Len(digits) - 1)) * 10 + DigitValue(digits[Len(digits)])

\* n.toString() of a non-negative integer
RECURSIVE toString(_)
toString(n) ==
  IF n < 10 THEN <<DigitChars[n + 1]>>
  ELSE toString(n \div 10) \o <<DigitChars[(n % 10) + 1]>>

Whitespace == {" "}

\* String.prototype.trim
RECURSIVE trim(_)
trim(str) ==
  IF str /= <<>> /\ Head(str) \in Whitespace THEN trim(Tail(str))
  ELSE IF str /= <<>> /\ str[Len(str)] \in Whitespace
         THEN trim(SubSeq(str, 1, Len(str) - 1))
  ELSE str

RECURSIVE LeadingDigits(_)
LeadingDigits(str) ==
  IF str /= <<>> /\ Head(str) \in Digits
    THEN <<Head(str)>> \o LeadingDigits(Tail(str)) ELSE <<>>

\* a capture group that did not take part in the match is the empty sequence
NoMatch == [match |-> FALSE, h |-> <<>>, m |-> <<>>, s |-> <<>>]

\* str.match(/^(?:(\d+)h)?(?:(\d+)m)?(?:(\d+)s)?$/), the groups still open
\* being those of the letters in `units`
RECURSIVE durationRegex(_, _, _)
durationRegex(str, units, groups) ==
  IF str = <<>> THEN groups
  ELSE LET digits == LeadingDigits(str)
           rest == SubSeq(str, Len(digits) + 1, Len(str))
       IN IF digits = <<>> \/ rest = <<>> THEN NoMatch
          ELSE IF \E k \in 1..Len(units) : units[k] = Head(rest)
            THEN LET k == CHOOSE k \in 1..Len(units) : units[k] = Head(rest)
                 IN durationRegex(Tail(rest), SubSeq(units, k + 1, Len(units)),
                                  [groups EXCEPT ![Head(rest)] = digits])
          ELSE NoMatch

\* a millisecond count, kept as whole seconds and the milliseconds beyond them
Millis(seconds, ms) == [seconds |-> seconds, ms |-> ms]

Thrown(error) == [ok |-> FALSE, error |-> error, value |-> Millis(0, 0)]

Returned(value) == [ok |-> TRUE, error |-> "", value |-> value]

\* parseDuration without the check of the range of the minutes
durationOfAnyMinutes(groups) ==
  LET hours == parseInt(groups.h)
      minutes == parseInt(groups.m)
      seconds == parseInt(groups.s)
  IN IF groups.h = <<>> /\ groups.m = <<>> /\ groups.s = <<>> THEN Thrown("unit")
     ELSE IF hours < 0 \/ hours > 8760 THEN Thrown("hours")
     ELSE IF seconds < 0 \/ seconds > 59 THEN Thrown("seconds")
     ELSE IF hours * 3600 + minutes * 60 + seconds = 0 THEN Thrown("zero")
     ELSE Returned(Millis(hours * 3600 + minutes * 60 + seconds, 0))

\* parseDuration once the regex has matched
durationOf(groups) ==
  LET hours == parseInt(groups.h)
      minutes == parseInt(groups.m)
      seconds == parseInt(groups.s)
  IN IF groups.h = <<>> /\ groups.m = <<>> /\ groups.s = <<>> THEN Thrown("unit")
     ELSE IF hours < 0 \/ hours > 8760 THEN Thrown("hours")
     ELSE IF minutes < 0 \/ minutes > 59 THEN Thrown("minutes")
     ELSE IF seconds < 0 \/ seconds > 59 THEN Thrown("seconds")
     ELSE IF hours * 3600 + minutes * 60 + seconds = 0 THEN Thrown("zero")
     ELSE Returned(Millis(hours * 3600 + minutes * 60 + seconds, 0))

parseDuration(str) ==
  IF trim(str) = <<>> THEN Thrown("empty")
  ELSE LET groups == durationRegex(trim(str), <<"h", "m", "s">>,
                                   [NoMatch EXCEPT !.match = TRUE])
       IN IF ~groups.match THEN Thrown("format") ELSE durationOf(groups)

\* formatDuration: the three values it splits the count into, and its result
formatDuration(milliseconds) ==
  LET totalSeconds == milliseconds.seconds
      hours == totalSeconds \div 3600
      minutes == (totalSeconds % 3600) \div 60
      seconds == totalSeconds % 60
      joined == (IF hours > 0 THEN toString(hours) \o <<"h">> ELSE <<>>)
                  \o (IF minutes > 0 THEN toString(minutes) \o <<"m">> ELSE <<>>)
                  \o (IF seconds > 0 THEN toString(seconds) \o <<"s">> ELSE <<>>)
  IN [hours |-> hours, minutes |-> minutes, seconds |-> seconds,
      result |-> IF joined = <<>> THEN <<"0", "s">> ELSE joined]

DurationAlphabet == {"0", "5", "9", "h", "m", "s", " "}

\* every short string over the alphabet, and longer ones at the limits
DurationStrings ==
  UNION {[1..n -> DurationAlphabet] : n \in 0..MaxDurationLen}
    \cup {<<"2","h","3","m","4","s">>, <<"8","7","6","0","h">>, <<"8","7","6","1","h">>,
          <<"8","7","6","0","h","5","9","m","5","9","s">>, <<"6","0","s">>,
          <<"0","h","0","m","0","s">>, <<"0","0","7","s">>, <<"1","m","1","h">>,
          <<" ","2","h","3","m"," ">>, <<"2","h"," ","3","m">>, <<"1",".","5","h">>,
          <<"-","1","h">>, <<"1","0","0","0","0","h">>, <<"0","h","5","m">>}

NotCalled == Thrown("")

NotFormatted == [hours |-> 0, minutes |-> 0, seconds |-> 0, result |-> <<>>]

ParseDuration ==
  /\ durationResult = NotCalled
  /\ \E str \in DurationStrings :
       /\ durationString' = str
       /\ durationResult' = parseDuration(str)
  /\ UNCHANGED formatted

FormatDuration ==
  /\ durationResult.ok
  /\ formatted = NotFormatted
  /\ formatted' = formatDuration(durationResult.value)
  /\ UNCHANGED <<durationString, durationResult>>

(* ----------------------------- date times ------------------------------ *)
\* a time value, kept as whole days since the epoch and the milliseconds
\* within the day
Time(days, ms) == [days |-> days, ms |-> ms]

MsPerDay == 86400000

MsPerMinute == 60000

\* the day number of a date of the Gregorian calendar; a day beyond the end
\* of the month runs on into the next month
daysFromCivil(year, month, day) ==
  LET y == IF month <= 2 THEN year - 1 ELSE year
      era == y \div 400
      yoe == y - era * 400
      mp == IF month > 2 THEN month - 3 ELSE month + 9
      doy == (153 * mp + 2) \div 5 + day - 1
      doe == yoe * 365 + yoe \div 4 - yoe \div 100 + doy
  IN era * 146097 + doe - 719468

\* the date of a day number
civilFromDays(days) ==
  LET z == days + 719468
      era == z \div 146097
      doe == z - era * 146097
      yoe == (doe - doe \div 1460 + doe \div 36524 - doe \div 146096) \div 365
      doy == doe - (365 * yoe + yoe \div 4 - yoe \div 100)
      mp == (5 * doy + 2) \div 153
      month == IF mp < 10 THEN mp + 3 ELSE mp - 9
  IN [year |-> yoe + era * 400 + (IF month <= 2 THEN 1 ELSE 0),
      month |-> month,
      day |-> doy - (153 * mp + 2) \div 5 + 1]

AddMinutes(t, minutes) ==
  Time(t.days + (t.ms + minutes * MsPerMinute) \div MsPerDay,
       (t.ms + minutes * MsPerMinute) % MsPerDay)

\* the local zone: one hour ahead of UTC, and two hours ahead from the last
\* Sunday of March 2025 to the last Sunday of October 2025, 01:00 UTC
StandardOffset == 60

SummerOffset == 120

InSummerTime(t) ==
  LET from == Time(daysFromCivil(2025, 3, 30), 60 * MsPerMinute)
      to == Time(daysFromCivil(2025, 10, 26), 60 * MsPerMinute)
      AtOrAfter(a, b) == a.days > b.days \/ (a.days = b.days /\ a.ms >= b.ms)
  IN AtOrAfter(t, from) /\ ~AtOrAfter(t, to)

\* new Date(year, monthIndex, day, hours, minutes, seconds): a local time
\* that occurs twice is the earlier one, one that is skipped is moved on
newDate(year, monthIndex, day, hours, minutes, seconds) ==
  LET local == Time(daysFromCivil(IF year \in 0..99 THEN 1900 + year ELSE year,
                                  monthIndex + 1, 1) + day - 1,
                    ((hours * 60 + minutes) * 60 + seconds) * 1000)
  IN IF InSummerTime(AddMinutes(local, -SummerOffset))
       THEN AddMinutes(local, -SummerOffset)
       ELSE AddMinutes(local, -StandardOffset)

\* getFullYear, getMonth, getDate, getHours, getMinutes, getSeconds of a Date
dateFields(t) ==
  LET local == AddMinutes(t, IF InSummerTime(t) THEN SummerOffset ELSE StandardOffset)
      civil == civilFromDays(local.days)
  IN [year |-> civil.year, month |-> civil.month - 1, date |-> civil.day,
      hours |-> local.ms \div (60 * MsPerMinute),
      minutes |-> (local.ms \div MsPerMinute) % 60,
      seconds |-> (local.ms \div 1000) % 60]

DateThrown(error) == [ok |-> FALSE, error |-> error, value |-> Time(0, 0)]

\* the check of the built date left out
sameFieldsUnchecked(date, year, month, day, hour, minute, second) == TRUE

\* the date that was built has the fields it was built from
sameFields(date, year, month, day, hour, minute, second) ==
  dateFields(date) = [year |-> year, month |-> month - 1, date |-> day,
                      hours |-> hour, minutes |-> minute, seconds |-> second]

\* parseDateTime of a string of 14 digits
dateOf(year, month, day, hour, minute, second) ==
  IF month < 1 \/ month > 12 THEN DateThrown("month")
  ELSE IF day < 1 \/ day > 31 THEN DateThrown("day")
  ELSE IF hour < 0 \/ hour > 23 THEN DateThrown("hour")
  ELSE IF minute < 0 \/ minute > 59 THEN DateThrown("minute")
  ELSE IF second < 0 \/ second > 59 THEN DateThrown("second")
  ELSE IF ~sameFields(newDate(year, month - 1, day, hour, minute, second),
                      year, month, day, hour, minute, second)
    THEN DateThrown("date")
  ELSE [ok |-> TRUE, error |-> "",
        value |-> newDate(year, month - 1, day, hour, minute, second)]

parseDateTime(str) ==
  IF Len(str) /= 14 \/ \E k \in 1..Len(str) : str[k] \notin Digits
    THEN DateThrown("format")
  ELSE dateOf(parseInt(SubSeq(str, 1, 4)), parseInt(SubSeq(str, 5, 6)),
              parseInt(SubSeq(str, 7, 8)), parseInt(SubSeq(str, 9, 10)),
              parseInt(SubSeq(str, 11, 12)), parseInt(SubSeq(str, 13, 14)))

\* String.prototype.padStart(length, '0')
RECURSIVE padStart(_, _)
padStart(str, length) ==
  IF Len(str) >= length THEN str ELSE padStart(<<"0">> \o str, length)

formatDateTime(timestamp) ==
  LET date == dateFields(timestamp)
  IN padStart(toString(date.year), 4) \o padStart(toString(date.month + 1), 2)
       \o padStart(toString(date.date), 2) \o padStart(toString(date.hours), 2)
       \o padStart(toString(date.minutes), 2) \o padStart(toString(date.seconds), 2)

\* arguments of parseDateTime: every combination of these fields, and
\* strings that are not 14 digits
DateTimeStrings ==
  {yyyy \o mm \o dd \o hh \o mi \o ss :
     yyyy \in {<<"0","0","0","0">>, <<"0","0","9","9">>, <<"0","1","0","0">>,
               <<"1","9","0","0">>, <<"1","9","7","0">>, <<"2","0","2","4">>,
               <<"2","0","2","5">>, <<"9","9","9","9">>},
     mm \in {<<"0","0">>, <<"0","1">>, <<"0","2">>, <<"0","3">>, <<"0","4">>,
             <<"1","0">>, <<"1","2">>, <<"1","3">>},
     dd \in {<<"0","0">>, <<"0","1">>, <<"2","6">>, <<"2","8">>, <<"2","9">>,
             <<"3","0">>, <<"3","1">>, <<"3","2">>},
     hh \in {<<"0","0">>, <<"0","2">>, <<"0","3">>, <<"2","3">>, <<"2","4">>},
     mi \in {<<"0","0">>, <<"3","0">>, <<"5","9">>, <<"6","0">>},
     ss \in {<<"0","0">>, <<"5","9">>, <<"6","0">>}}
  \cup {<<>>,
        <<"2","0","2","5","1","0","2","1","0","5","3","3","2">>,
        <<"2","0","2","5","1","0","2","1","0","5","3","3","2","1","0">>,
        <<"2","0","2","5","1","0","2","1","0","5","3","3","2","x">>,
        <<" ","2","0","2","5","1","0","2","1","0","5","3","3","2","1">>,
        <<"2","0","2","5","-","1","0","-","2","1"," ","0","5",":">>}

DateNotCalled == DateThrown("")

ParseDateTime ==
  /\ dateResult = DateNotCalled
  /\ \E str \in DateTimeStrings :
       /\ dateTimeString' = str
       /\ dateResult' = parseDateTime(str)
  /\ UNCHANGED dateText

FormatDateTime ==
  /\ dateResult.ok
  /\ dateText = <<>>
  /\ dateText' = formatDateTime(dateResult.value)
  /\ UNCHANGED <<dateTimeString, dateResult>>

(* --------------------------- specification ----------------------------- *)
InitScheduler ==
  /\ now = 0
  /\ nextId = 1
  /\ jobs = [id \in AllIds |-> Null]
  /\ heap = [r \in Refs |-> NoObj]
  /\ inflight = <<>>
  /\ published = [id \in AllIds |-> 0]
  /\ createdKind = [id \in AllIds |-> ""]
  /\ last = Outcome("init", 0, TRUE, Null, "")
  /\ calls = 0
  /\ failed = {}
  /\ touched = {}

InitConsumer ==
  /\ stream = <<>>
  /\ groupExists = FALSE
  /\ lastDelivered = 0
  /\ pel = [e \in Entries |-> NoOwner]
  /\ running = [inst \in Instances |-> FALSE]
  /\ loops = [l \in Loops |-> NoLoop]
  /\ result = [e \in Entries |-> "none"]
  /\ ack = [e \in Entries |-> "none"]
  /\ handled = [e \in Entries |-> 0]
  /\ disturbed = FALSE
  /\ ccalls = 0

InitTool ==
  /\ validators = {}
  /\ posted = <<>>
  /\ toolLast = ToolResult("none", EmptyString, FALSE, NoUserId)
  /\ tcalls = 0

InitDuration ==
  /\ durationString = <<>>
  /\ durationResult = NotCalled
  /\ formatted = NotFormatted

InitDateTime ==
  /\ dateTimeString = <<>>
  /\ dateResult = DateNotCalled
  /\ dateText = <<>>

Init == InitScheduler /\ InitConsumer /\ InitTool /\ InitDuration /\ InitDateTime

\* a caller issues one more operation
Call == calls < MaxCalls /\ calls' = calls + 1

\* the operation that just ran was one on job last'.id
Touched ==
  /\ failed' = failed \ {last'.id}
  /\ touched' = IF \E i \in 1..Len(inflight) : inflight[i].event.jobId = last'.id
                  THEN touched \cup {last'.id} ELSE touched

SchedulerNext ==
  \/ Call /\ CreateJob /\ Touched
  \/ Call /\ PatchJob /\ Touched
  \/ Call /\ StartJob /\ Touched
  \/ Call /\ StopJob /\ Touched
  \/ Call /\ DeleteJob /\ Touched
  \/ Call /\ stopAll /\ failed' = {}
          /\ touched' = touched \cup {inflight[i].event.jobId : i \in 1..Len(inflight)}
  \/ (\E r \in Refs : \E b \in BOOLEAN : FireTimer(r, b)) /\ UNCHANGED <<calls, failed, touched>>
  \/ (\E r \in Refs : CronTick(r)) /\ UNCHANGED <<calls, failed, touched>>
  \/ (\E i \in 1..MaxEvents : PublishOk(i)) /\ UNCHANGED calls
  \/ (\E i \in 1..MaxEvents : PublishFail(i)) /\ UNCHANGED calls
  \/ Tick /\ UNCHANGED <<calls, failed, touched>>

Next == SchedulerNext /\ UNCHANGED <<consVars, toolVars, durVars, dateVars>>

Spec == Init /\ [][Next]_vars

\* the stream and its consumers, the scheduler left aside
\* the owner of a consumer calls start() or stop(), or its process dies
ConsumerCall == ccalls < MaxConsumerCalls /\ ccalls' = ccalls + 1

ConsumerNext ==
  \/ Publish /\ UNCHANGED ccalls
  \/ ConsumerCall /\ Start
  \/ ConsumerCall /\ Stop
  \/ ConsumerCall /\ (\E inst \in Instances : Crash(inst))
  \/ (\E l \in Loops : LoopStep(l)) /\ UNCHANGED ccalls

NextConsumer == ConsumerNext /\ UNCHANGED <<schedVars, toolVars, durVars, dateVars>>

SpecConsumer == Init /\ [][NextConsumer]_vars

\* the event loop runs every continuation that is ready, and the store does
\* not reject every read for ever
Fairness ==
  \A l \in Loops :
    /\ WF_vars(LoopStep(l) /\ UNCHANGED <<schedVars, toolVars, durVars, dateVars, ccalls>>)
    /\ SF_vars((ReadOk(l) \/ ReadEmpty(l)) /\ UNCHANGED <<schedVars, toolVars, durVars, dateVars, ccalls>>)

SpecConsumerFair == Init /\ [][NextConsumer]_vars /\ Fairness

\* the MCP server: validators are registered and tools are called
ToolNext ==
  \/ InitializeValidators
  \/ HandleWhatsAppTool

NextTool == ToolNext /\ UNCHANGED <<schedVars, consVars, durVars, dateVars>>

SpecTool == Init /\ [][NextTool]_vars

\* the duration functions applied to one string
NextDuration ==
  /\ \/ ParseDuration
     \/ FormatDuration
  /\ UNCHANGED <<schedVars, consVars, toolVars, dateVars>>

SpecDuration == Init /\ [][NextDuration]_vars

\* the date-time functions applied to one string
NextDateTime ==
  /\ \/ ParseDateTime
     \/ FormatDateTime
  /\ UNCHANGED <<schedVars, consVars, toolVars, durVars>>

SpecDateTime == Init /\ [][NextDateTime]_vars

(* ============================== claims ================================= *)
\* the table entry of job id, when the table has one
InTable(id) == jobs[id] /= Null
Entry(id) == heap[jobs[id]]

\* live timers that will call executeJob(id): armed setTimeout handles and
\* running cron tasks of every object whose definition.id is id
LiveTimers(id) ==
  LET n(r) == IF heap[r].alloc /\ heap[r].id = id
                THEN heap[r].liveTimers + (IF heap[r].task THEN 1 ELSE 0)
                ELSE 0
      RECURSIVE Sum(_)
      Sum(k) == IF k = 0 THEN 0 ELSE n(k) + Sum(k - 1)
  IN Sum(MaxObjs)

\* a firing of job id is awaiting its publish
InFlight(id) == \E i \in 1..Len(inflight) : inflight[i].event.jobId = id

\* C1: a OneTime job fires at most once: at most one event is ever published
\* for the id of a job that was created as OneTime.
C1_OneTimeFiresAtMostOnce ==
  \A id \in Ids : createdKind[id] = OneTime => published[id] <= 1

\* C1 case: a OneTime job has fired and its event is on the stream.
C1_Fired ==
  \E id \in Ids : createdKind[id] = OneTime /\ published[id] = 1

\* C2: in every reachable state there is at most one live timer per job id.
C2_AtMostOneLiveTimer ==
  \A id \in AllIds : LiveTimers(id) <= 1

\* C2 case: startJob succeeded on a job whose timer was already armed.
C2_StartOnEnabled ==
  /\ last.op = "start" /\ last.ok
  /\ heap[jobs[last.id]].liveTimers >= 1

\* C3: when the firing of a OneTime job publishes successfully, the table entry
\* of that job gets executed = true, enabled = false, executedAt recorded and
\* its timeout released; and once a table entry is executed it stays executed
\* and disabled for as long as the id is in the table.
C3_ExecutedIsTerminal ==
  [][ /\ \A i \in 1..Len(inflight) :
           LET f == inflight[i] IN
           ( /\ published'[f.event.jobId] = published[f.event.jobId] + 1
             /\ inflight' = RemoveAt(inflight, i)
             /\ heap[f.ref].type = OneTime
             /\ jobs'[f.event.jobId] /= Null )
           => LET e == heap'[jobs'[f.event.jobId]] IN
              /\ e.executed /\ ~e.enabled
              /\ e.executedAt /= Absent
              /\ e.timeout = "null"
      /\ \A id \in AllIds :
           (InTable(id) /\ Entry(id).type = OneTime /\ Entry(id).executed
              /\ ~Entry(id).enabled /\ jobs'[id] /= Null)
           => heap'[jobs'[id]].executed /\ ~heap'[jobs'[id]].enabled
    ]_vars

\* entry e is held by a call of start(): claimed and not yet processed
Claimed(e) == \E l \in Loops : e \in SeqRange(loops[l].batch)
\* entry e sits in the pending list and no loop holds it
Abandoned(e) == pel[e] /= NoOwner /\ ~Claimed(e)
Appended(e) == e <= Len(stream)

\* C4: with consumers of one group reading concurrently, no entry is ever
\* dispatched to a handler twice, and while nothing fails (no handler throws,
\* no entry is unparseable, no acknowledge or group creation fails, nobody
\* stops or crashes) every appended entry is eventually acknowledged.
C4_EachEventOnceAndAcked ==
  /\ [](\A e \in Entries : handled[e] <= 1)
  /\ \A e \in Entries :
       (Appended(e) /\ (\E l \in Loops : loops[l].pc /= "idle"))
         ~> (ack[e] = "acked" \/ disturbed)

\* two instances each hold one of two events, each dispatched exactly once
C4_TwoInstancesShare ==
  /\ ~disturbed
  /\ Len(stream) = 2
  /\ \E l, k \in Loops :
       /\ loops[l].inst /= loops[k].inst
       /\ loops[l].pc = "ack" /\ loops[l].batch = <<1>>
       /\ loops[k].pc = "ack" /\ loops[k].batch = <<2>>
  /\ handled[1] = 1 /\ handled[2] = 1

\* C5: an entry left in the pending list (its handler threw, or its consumer
\* stopped or crashed before acknowledging) is eventually claimed again by a
\* read loop, provided a read loop keeps reading the group (reads are issued
\* again and again, as after a restart of the loop).
C5_PendingRedelivered ==
  \A e \in Entries :
    []<>(\E l \in Loops : loops[l].pc = "read") => (Abandoned(e) ~> Claimed(e))

\* C6: the acknowledgement of an entry is issued exactly after its handler
\* returned normally or when its type has no handler (it is the very next
\* step of processMessage, and an accepted one removes the entry from the
\* pending list); after a throw or an unparseable entry none is issued and
\* the entry stays pending; none is ever issued while the handler runs.
C6_AckIffHandled ==
  \A e \in Entries :
    /\ ack[e] /= "none" => result[e] \in {"returned", "nohandler"}
    /\ ack[e] = "acked" => pel[e] = NoOwner
    /\ result[e] \in {"threw", "unparseable", "handling"}
         => ack[e] = "none" /\ pel[e] /= NoOwner
    /\ (result[e] \in {"returned", "nohandler"} /\ ack[e] = "none")
         => \E l \in Loops : loops[l].pc = "ack" /\ Current(l) = e

\* one entry acknowledged after its handler returned, another left pending
\* after its handler threw
C6_AckedAndPending ==
  \E e, f \in Entries :
    /\ result[e] = "returned" /\ ack[e] = "acked" /\ pel[e] = NoOwner
    /\ result[f] = "threw" /\ ack[f] = "none" /\ pel[f] /= NoOwner

\* C7: an updateJob issued while a OneTime job's publish is in flight cannot
\* leave the job's table entry non-executed with a live timer once that firing
\* has completed: with no firing of the job in flight and an event of the job
\* published, the entry of a OneTime job is not left unexecuted and armed.
C7_NoUpdateDuringFiring ==
  \A id \in Ids :
    ( /\ createdKind[id] = OneTime /\ published[id] >= 1 /\ ~InFlight(id)
      /\ InTable(id) /\ Entry(id).type = OneTime )
    => ~(~Entry(id).executed /\ Entry(id).liveTimers > 0)

\* C8: the kind stored for a job id equals the kind the job was created with.
C8_KindImmutable ==
  \A id \in Ids : InTable(id) => Entry(id).type = createdKind[id]

\* C9: whenever an operation arms the timer of a OneTime job, the job's fire
\* time is strictly greater than the current time; and a startJob that fails
\* because the fire time has elapsed leaves the job disabled with no timer.
C9_ArmedInFuture ==
  /\ (last.ok /\ last.armed /= Null /\ heap[last.armed].type = OneTime)
       => heap[last.armed].scheduledTime > now
  /\ (last.op = "start" /\ last.err = "elapsed")
       => ~Entry(last.id).enabled /\ Entry(last.id).liveTimers = 0

\* C10: after a successful update of job J the job is still stored under J with
\* id J, and no other table entry was added, replaced or removed.
C10_IdImmutable ==
  [][ (calls' /= calls /\ last'.op = "update" /\ last'.ok)
      => /\ jobs'[last'.id] /= Null
         /\ heap'[jobs'[last'.id]].id = last'.id
         /\ \A k \in AllIds \ {last'.id} :
              /\ (jobs'[k] = Null) = (jobs[k] = Null)
              /\ jobs[k] /= Null => heap'[jobs'[k]] = heap[jobs[k]]
    ]_vars

\* C11: createJob throws exactly for a Recurring spec whose schedule is missing
\* or invalid, a OneTime spec whose fire time is missing or not after now, and
\* an unknown kind; a createJob that threw left the table and every timer as
\* they were, and one that returned added exactly one job, under an id that
\* was not in the table, and touched no other entry.
C11_CreateValidates ==
  /\ [](\A d \in JobData :
          (createJobError(d) /= "") <=>
            \/ d.type = Recurring /\ d.schedule \notin ValidSchedules
            \/ d.type = OneTime /\ (d.scheduledTime = Absent \/ d.scheduledTime <= now)
            \/ d.type \notin {Recurring, OneTime})
  /\ [][ (calls' /= calls /\ last'.op = "create") =>
           IF last'.ok
             THEN /\ jobs[last'.id] = Null /\ jobs'[last'.id] /= Null
                  /\ heap'[jobs'[last'.id]].id = last'.id
                  /\ \A k \in AllIds \ {last'.id} : jobs'[k] = jobs[k]
                  /\ \A r \in Refs \ {jobs'[last'.id]} : heap'[r] = heap[r]
             ELSE jobs' = jobs /\ heap' = heap
       ]_vars

\* C11 case: a createJob was rejected while the table held a job
C11_RejectedCreate ==
  /\ last.op = "create" /\ ~last.ok /\ last.err = "schedule-invalid"
  /\ \E id \in Ids : InTable(id)
\* C12: when stopJob(id) has returned the job is disabled and no timer that
\* would fire it is left armed; when startJob(id) has returned the job is
\* enabled and has a live timer.
C12_StopCancelsStartArms ==
  /\ (last.op = "stop" /\ last.ok)
       => ~Entry(last.id).enabled /\ LiveTimers(last.id) = 0
  /\ (last.op = "start" /\ last.ok)
       => Entry(last.id).enabled /\ LiveTimers(last.id) >= 1
C14_UpdateRearms ==
  [][ /\ (calls' /= calls /\ last'.op = "update" /\ last'.ok) =>
           /\ \A r \in Refs :
                (heap'[r].alloc /\ \A id \in AllIds : jobs'[id] /= r)
                  => heap'[r].timeout /= "live" /\ ~heap'[r].task
           /\ \A id \in AllIds :
                (jobs'[id] /= Null /\ jobs[last'.id] /= Null
                   /\ heap'[jobs'[id]] /= heap[jobs[last'.id]]) =>
                  LET e == heap'[jobs'[id]] IN
                  IF e.etype = OneTime
                    THEN e.liveTimers = (IF e.enabled THEN 1 ELSE 0)
                    ELSE e.task = e.enabled
      /\ \A i \in 1..Len(inflight') :
           (inflight'[i] \notin SeqRange(inflight)
              /\ heap[inflight'[i].ref].type = OneTime)
           => inflight'[i].event.scheduledTime <= now
    ]_vars
\* C15: a rejected publish reaches no caller and changes neither the table
\* nor the job, and after the publish of a OneTime job's firing was rejected
\* no further firing of that job begins (no second publish attempt is made)
\* until a caller operates on the job.
C15_NoAutomaticRetry ==
  [][ /\ (failed' /= failed /\ failed \subseteq failed') =>
           jobs' = jobs /\ last' = Internal
             /\ \A id \in AllIds : jobs[id] /= Null => heap'[jobs[id]] = heap[jobs[id]]
      /\ \A i \in 1..Len(inflight') :
           (inflight'[i] \notin SeqRange(inflight)
              /\ createdKind[inflight'[i].event.jobId] = OneTime)
           => inflight'[i].event.jobId \notin failed
    ]_vars
\* C16: no step of a firing (its start on a tick, its publish resolving or
\* being rejected) changes a Recurring job of the table: the entry, its
\* enabled and executed flags and its running task stay as they were.
C16_RecurringFiringKeepsState ==
  [][ inflight' /= inflight =>
        \A id \in AllIds :
          (jobs[id] /= Null /\ Entry(id).type = Recurring) =>
            /\ jobs'[id] = jobs[id]
            /\ heap'[jobs[id]] = heap[jobs[id]]
    ]_vars

\* C16 case: a Recurring job has published an event, is still enabled and
\* running, and is firing again
C16_FiresAgain ==
  \E id \in Ids :
    /\ InTable(id) /\ Entry(id).type = Recurring
    /\ published[id] >= 1 /\ InFlight(id)
    /\ Entry(id).enabled /\ Entry(id).task /\ ~Entry(id).executed
\* C17: at most one firing of a Recurring job is awaiting its publish at any
\* time.
C17_RecurringFiringsSequential ==
  \A i, k \in 1..Len(inflight) :
    (i /= k /\ inflight[i].event.jobId = inflight[k].event.jobId)
      => heap[inflight[i].ref].type /= Recurring
\* C18: the event of a firing that begins carries the id, and the name, the
\* payload and (for a OneTime job) the fire time that the table holds for that
\* id at that moment.
C18_EventFromCurrentDefinition ==
  [][ \A i \in 1..Len(inflight') :
        inflight'[i] \notin SeqRange(inflight) =>
          LET ev == inflight'[i].event IN
          /\ jobs[ev.jobId] /= Null
          /\ inflight'[i].ref = jobs[ev.jobId]
          /\ ev.jobName = Entry(ev.jobId).name
          /\ ev.payload = Entry(ev.jobId).payload
          /\ Entry(ev.jobId).type = OneTime
               => ev.scheduledTime = Entry(ev.jobId).scheduledTime
    ]_vars

\* C18 case: a firing carries the name a later updateJob gave the job
C18_FiresWithUpdatedName ==
  \E i \in 1..Len(inflight) :
    /\ inflight[i].event.jobName = "n2"
    /\ createdKind[inflight[i].event.jobId] = OneTime
\* C19: a running read loop ends only at the top of an iteration that finds
\* the running flag cleared, and the flag is cleared only by stop(); a read
\* error leads to the backoff and from there to the top of the loop again;
\* and a loop that was running when stop() was called issues no read at the
\* top of any later iteration.
C19_LoopEndsOnlyOnStop ==
  [][ \A l \in Loops :
        LET inst == loops[l].inst IN
        /\ (loops[l].pc \notin {"idle", "group"} /\ loops'[l].pc = "idle"
              /\ ~Crash(inst))
             => loops[l].pc = "top" /\ ~running[inst]
        /\ (loops[l].pc = "read" /\ loops'[l].pc \notin {"read", "proc", "top"}
              /\ ~Crash(inst))
             => loops'[l].pc = "backoff"
        /\ (loops[l].pc = "backoff" /\ loops'[l].pc /= "backoff" /\ ~Crash(inst))
             => loops'[l].pc = "top"
        /\ (loops[l].pc = "top" /\ loops[l].stopSeen = "running")
             => loops'[l].pc /= "read"
    ]_vars

\* C20: no request posted to the WhatsApp API comes from a tool call that
\* carried dryRun = true, whoever the recipient and whatever the context
C20_DryRunNeverSends ==
  \A i \in 1..Len(posted) : ~posted[i].dryRun

\* C21: a validation for an action with no registered validator succeeds;
\* with a validator registered it succeeds exactly when the normalized
\* resource is in the actor's allow-list, which contains the actor's own
\* normalized identifier, so a resource equal to the actor's identifier is
\* allowed
C21_ValidateByAllowList ==
  [][(tcalls' /= tcalls /\ ~FalsyUserId(toolLast'.userId)) =>
       /\ ToolName \notin validators => toolLast'.kind /= "invalid"
       /\ ToolName \in validators =>
            /\ toolLast'.kind /= "invalid"
                 <=> normalize(toolLast'.phoneNumber) \in getWhitelist(toolLast'.userId)
            /\ normalize(toolLast'.userId) \in getWhitelist(toolLast'.userId)
            /\ toolLast'.phoneNumber = toolLast'.userId => toolLast'.kind /= "invalid"]_vars

\* str is digits followed by the letter unit, or is empty
DurationPart(str, unit) ==
  \/ str = <<>>
  \/ /\ Len(str) >= 2
     /\ str[Len(str)] = unit
     /\ \A k \in 1..(Len(str) - 1) : str[k] \in Digits

PartValue(str) == IF str = <<>> THEN 0 ELSE parseInt(SubSeq(str, 1, Len(str) - 1))

\* str is [Nh][Nm][Ns], its parts ending at positions i, j and Len(str)
DurationForm(str, i, j) ==
  /\ DurationPart(SubSeq(str, 1, i), "h")
  /\ DurationPart(SubSeq(str, i + 1, j), "m")
  /\ DurationPart(SubSeq(str, j + 1, Len(str)), "s")

\* the component values of a string of the form [Nh][Nm][Ns]
Components(str) ==
  LET ij == CHOOSE ij \in (0..Len(str)) \X (0..Len(str)) :
              ij[1] <= ij[2] /\ DurationForm(str, ij[1], ij[2])
  IN [hours |-> PartValue(SubSeq(str, 1, ij[1])),
      minutes |-> PartValue(SubSeq(str, ij[1] + 1, ij[2])),
      seconds |-> PartValue(SubSeq(str, ij[2] + 1, Len(str)))]

\* str is a valid duration: of the form, with a component, within the
\* ranges, and not zero in total
ValidDuration(str) ==
  /\ str /= <<>>
  /\ \E i \in 0..Len(str) : \E j \in i..Len(str) : DurationForm(str, i, j)
  /\ Components(str).hours \in 0..8760
  /\ Components(str).minutes \in 0..59
  /\ Components(str).seconds \in 0..59
  /\ Components(str).hours + Components(str).minutes + Components(str).seconds > 0

\* what parseDuration does with a string it accepts: the value is
\* (h*3600 + m*60 + s)*1000, and splitting it gives h, m and s back
DurationValue(str) ==
  /\ durationResult.value
       = Millis(Components(str).hours * 3600 + Components(str).minutes * 60
                  + Components(str).seconds, 0)
  /\ formatted /= NotFormatted =>
       /\ formatted.hours = Components(str).hours
       /\ formatted.minutes = Components(str).minutes
       /\ formatted.seconds = Components(str).seconds

\* C22 (amended): parseDuration accepts exactly the strings that, once the
\* white space around them is removed, are valid durations; it returns
\* (h*3600 + m*60 + s)*1000 and splitting that value reproduces h, m and s;
\* every other string fails
C22_ParseDurationTrimmed ==
  durationResult /= NotCalled =>
    /\ durationResult.ok <=> ValidDuration(trim(durationString))
    /\ durationResult.ok => DurationValue(trim(durationString))

\* C22 as stated: parseDuration accepts exactly the strings that are valid
\* durations, and every other string fails
C22_ParseDurationExact ==
  durationResult /= NotCalled =>
    /\ durationResult.ok <=> ValidDuration(durationString)
    /\ durationResult.ok => DurationValue(durationString)

\* a string of three components was accepted and its value split again
C22_ThreeComponentsSplit ==
  /\ durationResult.ok
  /\ formatted /= NotFormatted
  /\ formatted.hours > 0 /\ formatted.minutes > 0 /\ formatted.seconds > 0

\* the number of days of a month of the Gregorian calendar
DaysInMonth(year, month) ==
  IF month = 2
    THEN IF year % 4 = 0 /\ (year % 100 /= 0 \/ year % 400 = 0) THEN 29 ELSE 28
  ELSE IF month \in {4, 6, 9, 11} THEN 30 ELSE 31

\* str is 14 digits whose fields are a date of the calendar and a time of day
RealDateTime(str) ==
  /\ Len(str) = 14
  /\ \A k \in 1..Len(str) : str[k] \in Digits
  /\ parseInt(SubSeq(str, 5, 6)) \in 1..12
  /\ parseInt(SubSeq(str, 7, 8))
       \in 1..DaysInMonth(parseInt(SubSeq(str, 1, 4)), parseInt(SubSeq(str, 5, 6)))
  /\ parseInt(SubSeq(str, 9, 10)) \in 0..23
  /\ parseInt(SubSeq(str, 11, 12)) \in 0..59
  /\ parseInt(SubSeq(str, 13, 14)) \in 0..59

\* C23: parseDateTime accepts a string only if it is 14 digits whose fields
\* are a real calendar date and time, and formatting the timestamp it returns
\* for an accepted string gives the string back
C23_ParseFormatRoundTrip ==
  dateResult.ok =>
    /\ RealDateTime(dateTimeString)
    /\ dateText /= <<>> => dateText = dateTimeString

\* a leap day at the last second of the day was accepted and formatted
C23_LeapDayFormatted ==
  /\ dateResult.ok
  /\ dateText /= <<>>
  /\ SubSeq(dateTimeString, 1, 8) = <<"2","0","2","4","0","2","2","9">>
  /\ SubSeq(dateTimeString, 9, 14) = <<"2","3","5","9","5","9">>

\* C24: a OneTime job of the table is executed, or has an executedAt, only
\* when an event for its id was published; no create or update request makes
\* it so
C24_ExecutedOnlyByFiring ==
  \A id \in AllIds :
    (InTable(id) /\ Entry(id).type = OneTime
       /\ (Entry(id).executed \/ Entry(id).executedAt /= Absent))
      => published[Entry(id).id] > 0

\* C25: for every job of the table that has no firing awaiting its publish,
\* enabled and not executed means that a live timer will fire it, and not
\* enabled means that no live timer will
C25_EnabledAgreesWithTimer ==
  \A id \in AllIds :
    (InTable(id) /\ ~InFlight(id)) =>
      /\ (Entry(id).enabled /\ ~Entry(id).executed) => LiveTimers(id) > 0
      /\ ~Entry(id).enabled => LiveTimers(id) = 0

\* C26: an update that fails leaves the table and every entry of it, its
\* definition and its timer, as they were
C26_FailedUpdateChangesNothing ==
  [][ (calls' /= calls /\ last'.op = "update" /\ ~last'.ok)
      => /\ jobs' = jobs
         /\ \A id \in AllIds : jobs[id] /= Null => heap'[jobs[id]] = heap[jobs[id]]
    ]_vars

\* C27: a call of start() that stop() was issued on while it was creating
\* the consumer group ends: its read loop does not run for ever
C27_StopDuringStartNotLost ==
  \A l \in Loops : (loops[l].stopSeen = "starting") ~> (loops[l].pc = "idle")

\* C28: at most one call of start() of an instance is in its read loop
C28_OneLoopPerInstance ==
  \A inst \in Instances :
    Cardinality({l \in LoopsOf(inst) : loops[l].pc \notin {"idle", "group"}}) <= 1

\* C29: the entries of a batch are processed one at a time in stream order:
\* the for-loop is always at the head of what is left of the array the read
\* returned, only that entry is dispatched or acknowledged, and whatever the
\* outcome for it (handler returned or threw, entry unparseable, acknowledge
\* accepted or rejected) the loop goes on to the next entry of the batch
C29_BatchGoesOn ==
  /\ [](\A l \in Loops :
          /\ \A i, j \in 1..Len(loops[l].messages) :
               i < j => loops[l].messages[i] < loops[l].messages[j]
          /\ \E n \in 0..Len(loops[l].messages) :
               loops[l].batch = SubSeq(loops[l].messages, n + 1, Len(loops[l].messages))
          /\ loops[l].batch /= <<>> <=> loops[l].pc \in {"proc", "handler", "ack"})
  /\ [][ \A l \in Loops :
           (loops[l].batch /= <<>> /\ ~Crash(loops[l].inst)) =>
             /\ loops'[l].batch \in {loops[l].batch, Tail(loops[l].batch)}
             /\ \A e \in SeqRange(Tail(loops[l].batch)) :
                  result'[e] = result[e] /\ ack'[e] = ack[e] /\ pel'[e] = pel[e]
       ]_vars

\* both entries of one batch were dispatched in order; the handler of the
\* first threw and the entry is pending, the second is acknowledged
C29_LaterAckedEarlierPending ==
  \E l \in Loops :
    /\ loops[l].messages = <<1, 2>> /\ loops[l].batch = <<>>
    /\ result[1] = "threw" /\ ack[1] = "none" /\ pel[1] /= NoOwner
    /\ result[2] = "returned" /\ ack[2] = "acked" /\ pel[2] = NoOwner

\* C30: a read loop ends only with nothing left of its batch, and no entry
\* that a read handed out and that is no longer in a batch was left
\* undispatched, or unacknowledged after its handler returned: stop() lets
\* the batch in hand run to its end
C30_StopFinishesBatch ==
  /\ [](\A e \in 1..lastDelivered :
          (\A l \in Loops : e \notin SeqRange(loops[l].batch)) =>
            /\ result[e] \notin {"none", "handling"}
            /\ result[e] \in {"returned", "nohandler"} => ack[e] /= "none"
            /\ (result[e] \in {"returned", "nohandler"} /\ ack[e] = "acked")
                 => pel[e] = NoOwner)
  /\ [][ \A l \in Loops :
           (loops[l].pc \notin {"idle", "group"} /\ loops'[l].pc = "idle"
              /\ ~Crash(loops[l].inst))
             => loops[l].batch = <<>> /\ loops[l].pc = "top"
       ]_vars

\* stop() has been called on an instance whose loop has a batch of two in
\* hand, and the loop is about to acknowledge the second entry of it
C30_StoppedLoopGoesOn ==
  \E l \in Loops :
    /\ loops[l].stopSeen = "running" /\ ~running[loops[l].inst]
    /\ loops[l].messages = <<1, 2>> /\ loops[l].batch = <<2>>
    /\ loops[l].pc = "ack"
    /\ result[1] = "returned" /\ ack[1] = "acked" /\ result[2] = "returned"

====
